---- MODULE Spec2Model ----
(***************************************************************************)
(* A model of backend/main.py of the virtual try-on backend: the           *)
(* background-removal core (estimate_background_color, pillow_bg_remove,   *)
(* remove_background) on pixel rasters, and the /upload handler            *)
(* (pil_open_image, downscale_if_needed, upload_garment) on the level of   *)
(* image sizes and error outcomes.                                         *)
(***************************************************************************)
EXTENDS Integers, Sequences, FiniteSets, TLC

(***************************************************************************)
(* Bounds of the model.                                                    *)
(***************************************************************************)
\* widths and heights of the generated rasters are 0..MaxDim
MaxDim == 3
\* calls made one after the other on the same process
MaxCalls == 2

(***************************************************************************)
(* Program constants.                                                      *)
(***************************************************************************)
MAX_DIMENSION == 2048
MAX_UPLOAD_BYTES == 8388608
\* pillow_bg_remove(im, threshold=45, smooth_radius=3, min_fg_fraction=0.001)
DEFAULT_THRESHOLD == 45
DEFAULT_SMOOTH_RADIUS == 3
\* estimate_background_color(rgb, sample_size=10)
SAMPLE_SIZE == 10
\* the floor and the step of the retry: max(20, threshold - 15)
THRESHOLD_FLOOR == 20
THRESHOLD_STEP == 15

\* 0.001 as a fraction <<numerator, denominator>>
DEFAULT_MIN_FG_FRACTION == <<1, 1000>>

Min(a, b) == IF a < b THEN a ELSE b
Max(a, b) == IF a > b THEN a ELSE b

(***************************************************************************)
(* Rasters.  A raster is a record [mode, w, h, px]; px maps the pixel      *)
(* <<x, y>> to <<r, g, b>> (mode "RGB"), <<r, g, b, a>> (mode "RGBA") or   *)
(* a single value (mode "L").                                              *)
(***************************************************************************)
Pixels(w, h) == (0 .. (w - 1)) \X (0 .. (h - 1))

White == <<255, 255, 255>>
Red == <<255, 0, 0>>
Gray == <<128, 128, 128>>
\* a colour 36 away from white in one channel: found at threshold 30, not at 45
OffWhite == <<255, 255, 219>>

Palette == {White, Red, OffWhite}

\* the alpha value the generated RGBA inputs carry before the call
InputAlpha == 77

WithMode(rgb, mode) == IF mode = "RGBA" THEN rgb \o <<InputAlpha>> ELSE rgb

\* a w x h raster of colour bgc with the rectangle [x0, x1] x [y0, y1] in fgc
MkImage(w, h, x0, x1, y0, y1, bgc, fgc, mode) ==
    [mode |-> mode, w |-> w, h |-> h,
     px |-> [p \in Pixels(w, h) |->
               IF p[1] >= x0 /\ p[1] <= x1 /\ p[2] >= y0 /\ p[2] <= y1
               THEN WithMode(fgc, mode) ELSE WithMode(bgc, mode)]]

\* the generated rasters: every size up to MaxDim (zero included), the
\* rectangle the whole raster or inset by one pixel, on all sides or on the
\* left and the top only
SmallImages ==
    { MkImage(w, h, i, IF c THEN w - 1 - i ELSE w - 1, i, IF c THEN h - 1 - i ELSE h - 1,
              bgc, fgc, mode) :
        w \in 0 .. MaxDim, h \in 0 .. MaxDim, i \in {0, 1}, c \in BOOLEAN,
        bgc \in Palette, fgc \in Palette, mode \in {"RGB", "RGBA"} }

\* 20x20 white with a centred 8x8 red square (rows and columns 6..13)
RedSquare20 == MkImage(20, 20, 6, 13, 6, 13, White, Red, "RGBA")
\* 5x5 uniform gray, smaller than the sample size
Gray5 == MkImage(5, 5, 0, -1, 0, -1, Gray, Gray, "RGBA")
\* uniform, wider than the sample size and lower than it
Gray12x3 == MkImage(12, 3, 0, -1, 0, -1, Gray, Gray, "RGB")
\* 12x12 uniform, larger than the sample size in both dimensions
White12 == MkImage(12, 12, 0, -1, 0, -1, White, White, "RGBA")

ScenarioImages == {RedSquare20, Gray5, Gray12x3, White12}

Images == SmallImages \cup ScenarioImages

IsSmall(im) == im.w <= MaxDim /\ im.h <= MaxDim

\* im.convert("RGB"): a new raster, the alpha channel dropped
ConvertRGB(im) ==
    [mode |-> "RGB", w |-> im.w, h |-> im.h,
     px |-> [p \in Pixels(im.w, im.h) |-> SubSeq(im.px[p], 1, 3)]]

\* im.convert("RGBA"): a new raster, opaque alpha added to an RGB raster
ConvertRGBA(im) ==
    [mode |-> "RGBA", w |-> im.w, h |-> im.h,
     px |-> [p \in Pixels(im.w, im.h) |->
               IF im.mode = "RGBA" THEN im.px[p] ELSE im.px[p] \o <<255>>]]

\* rgba.putalpha(mask)
PutAlpha(rgba, mask) ==
    [rgba EXCEPT !.px = [p \in Pixels(rgba.w, rgba.h) |->
                           SubSeq(rgba.px[p], 1, 3) \o <<mask[p]>>]]

(***************************************************************************)
(* color_distance_sq                                                       *)
(***************************************************************************)
\* the distance with the blue channel left out
color_distance_no_blue(c1, c2) ==
    (c1[1] - c2[1]) * (c1[1] - c2[1]) + (c1[2] - c2[2]) * (c1[2] - c2[2])

color_distance_sq(c1, c2) ==
    LET dr == c1[1] - c2[1]
        dg == c1[2] - c2[2]
        db == c1[3] - c2[3]
    IN  dr * dr + dg * dg + db * db

(***************************************************************************)
(* estimate_background_color.  A crop box <<x0, y0, x1, y1>> holds the     *)
(* pixels x0 <= x < x1, y0 <= y < y1.  ImageStat.Stat(c).mean[k] is        *)
(* sum[k] / count; the four crops have the same count                      *)
(* min(S, w) * min(S, h), so the sum of the means of the valid corners,    *)
(* divided by their number, is (sum of the band sums) / (count * number),  *)
(* and int() of it, the values being non-negative, is the integer          *)
(* quotient.  The floating-point quotients are taken as exact.             *)
(***************************************************************************)
Corners(w, h, sample_size) ==
    << <<0, 0, Min(sample_size, w), Min(sample_size, h)>>,
       <<Max(0, w - sample_size), 0, w, Min(sample_size, h)>>,
       <<0, Max(0, h - sample_size), Min(sample_size, w), h>>,
       <<Max(0, w - sample_size), Max(0, h - sample_size), w, h>> >>

\* ImageStat.Stat(crop).count[0]
CropCount(box) == Max(0, box[3] - box[1]) * Max(0, box[4] - box[2])

RECURSIVE RowSum(_, _, _, _, _)
RowSum(px, y, x0, x1, k) ==
    IF x0 >= x1 THEN 0 ELSE px[<<x0, y>>][k] + RowSum(px, y, x0 + 1, x1, k)

RECURSIVE BoxSum(_, _, _, _)
\* ImageStat.Stat(crop).sum[k]
BoxSum(px, box, y, k) ==
    IF y >= box[4] THEN 0
    ELSE RowSum(px, y, box[1], box[3], k) + BoxSum(px, box, y + 1, k)

\* the estimate with every corner taken to hold sample_size * sample_size pixels
estimate_full_corner_count(im, sample_size) ==
    LET corners == Corners(im.w, im.h, sample_size)
        valid == {i \in 1 .. 4 : CropCount(corners[i]) > 0}
        count == Cardinality(valid)
        n == sample_size * sample_size
        bandSum(i, k) == IF i \in valid THEN BoxSum(im.px, corners[i], corners[i][2], k) ELSE 0
        sums(k) == bandSum(1, k) + bandSum(2, k) + bandSum(3, k) + bandSum(4, k)
    IN  IF count = 0 THEN <<255, 255, 255>>
        ELSE <<sums(1) \div (n * count), sums(2) \div (n * count), sums(3) \div (n * count)>>

estimate_background_color(im, sample_size) ==
    LET corners == Corners(im.w, im.h, sample_size)
        valid == {i \in 1 .. 4 : CropCount(corners[i]) > 0}
        count == Cardinality(valid)
        n == Min(sample_size, im.w) * Min(sample_size, im.h)
        bandSum(i, k) == IF i \in valid THEN BoxSum(im.px, corners[i], corners[i][2], k) ELSE 0
        sums(k) == bandSum(1, k) + bandSum(2, k) + bandSum(3, k) + bandSum(4, k)
    IN  IF count = 0 THEN <<255, 255, 255>>
        ELSE <<sums(1) \div (n * count), sums(2) \div (n * count), sums(3) \div (n * count)>>

(***************************************************************************)
(* The mask of pillow_bg_remove: 255 where the pixel is farther from the   *)
(* background colour than the threshold, 0 elsewhere.                      *)
(***************************************************************************)
\* the comparison the other way round
IsForegroundFlipped(c, bg_color, thr) == color_distance_sq(c, bg_color) < thr * thr

IsForeground(c, bg_color, thr) == color_distance_sq(c, bg_color) > thr * thr

BuildMask(rgb, bg_color, thr) ==
    [p \in Pixels(rgb.w, rgb.h) |-> IF IsForeground(rgb.px[p], bg_color, thr) THEN 255 ELSE 0]

FgCount(m) == Cardinality({p \in DOMAIN m : m[p] = 255})

\* fg_fraction < min_fg_fraction, for w * h > 0; frac is <<n, d>>, d > 0
BelowMinFraction(fg, w, h, frac) == fg * frac[2] < frac[1] * (w * h)

\* the threshold lowered by 5 only
LoweredByFive(thr) == Max(THRESHOLD_FLOOR, thr - 5)

\* the threshold lowered without the floor
LoweredNoFloor(thr) == thr - THRESHOLD_STEP

\* max(20, threshold - 15)
LoweredThreshold(thr) == Max(THRESHOLD_FLOOR, thr - THRESHOLD_STEP)

\* the condition of the recursive call
NeedsRetry(fg, w, h, frac, thr) == BelowMinFraction(fg, w, h, frac) /\ thr > THRESHOLD_FLOOR

(***************************************************************************)
(* The refinement of the mask: ImageFilter.MaxFilter(3) and MinFilter(3)   *)
(* take the largest and the smallest value of the 3x3 neighbourhood, the   *)
(* raster extended at its border by repeating the edge pixels;             *)
(* GaussianBlur(radius=1) is Pillow's three box-blur passes along the      *)
(* rows followed by three along the columns, each pass the weights         *)
(* 1/6, 4/6, 1/6 rounded to the nearest integer, edge pixels repeated.     *)
(***************************************************************************)
Clamp(v, lo, hi) == IF v < lo THEN lo ELSE IF v > hi THEN hi ELSE v

SetMax(S) == CHOOSE v \in S : \A u \in S : u <= v
SetMin(S) == CHOOSE v \in S : \A u \in S : u >= v

Neighbourhood(m, w, h, p) ==
    { m[<<Clamp(p[1] + dx, 0, w - 1), Clamp(p[2] + dy, 0, h - 1)>>] :
        dx \in -1 .. 1, dy \in -1 .. 1 }

\* the value of the function, computed once at every point
Eval(m) == IF m = m THEN m ELSE m

MaxFilter3(m, w, h) == Eval([p \in Pixels(w, h) |-> SetMax(Neighbourhood(m, w, h, p))])
MinFilter3(m, w, h) == Eval([p \in Pixels(w, h) |-> SetMin(Neighbourhood(m, w, h, p))])

BoxPass(l, c, r) == (l + 4 * c + r + 3) \div 6

BlurRows(m, w, h) ==
    Eval([p \in Pixels(w, h) |->
        BoxPass(m[<<Clamp(p[1] - 1, 0, w - 1), p[2]>>], m[p],
                m[<<Clamp(p[1] + 1, 0, w - 1), p[2]>>])])

BlurColumns(m, w, h) ==
    Eval([p \in Pixels(w, h) |->
        BoxPass(m[<<p[1], Clamp(p[2] - 1, 0, h - 1)>>], m[p],
                m[<<p[1], Clamp(p[2] + 1, 0, h - 1)>>])])

GaussianBlur1(m, w, h) ==
    LET r1 == BlurRows(m, w, h)
        r2 == BlurRows(r1, w, h)
        r3 == BlurRows(r2, w, h)
        c1 == BlurColumns(r3, w, h)
        c2 == BlurColumns(c1, w, h)
    IN  BlurColumns(c2, w, h)

RECURSIVE Dilate(_, _, _, _)
\* n times mask = mask.filter(ImageFilter.MaxFilter(3))
Dilate(m, w, h, n) == IF n <= 0 THEN m ELSE Dilate(MaxFilter3(m, w, h), w, h, n - 1)

RECURSIVE Erode(_, _, _, _)
\* n times mask = mask.filter(ImageFilter.MinFilter(3))
Erode(m, w, h, n) == IF n <= 0 THEN m ELSE Erode(MinFilter3(m, w, h), w, h, n - 1)

\* the try block of pillow_bg_remove, of which `passes` filter calls complete
\* before one raises (2 * smooth_radius: none raises), then the blur
RefineMask(m, w, h, smooth_radius, passes) ==
    LET dil == Dilate(m, w, h, Min(passes, smooth_radius))
        ero == Erode(dil, w, h, Max(0, Min(passes, 2 * smooth_radius) - smooth_radius))
    IN  GaussianBlur1(ero, w, h)

(***************************************************************************)
(* The state of the core: one caller calling remove_background or          *)
(* pillow_bg_remove on its raster im, one call after the other.            *)
(***************************************************************************)
VARIABLES
    im,               \* the caller's raster
    im_at_call,       \* its value when the running call was made
    REMBG_AVAILABLE,  \* set at import time
    pc,               \* where the running call is
    entry,            \* the function the caller called
    do_rembg,         \* the argument of remove_background
    threshold,        \* the arguments of the running pillow_bg_remove frame
    smooth_radius,
    min_fg_fraction,
    bg_color,         \* the locals of the frame that built the final mask
    mask,
    fg_count,
    attempts,         \* one record for every pillow_bg_remove frame of the call
    rembg_outcome,    \* what the learned segmenter did in this call
    learned_calls,    \* calls of rembg_remove in this call
    heuristic_calls,  \* calls of pillow_bg_remove by remove_background in this call
    result,           \* the raster returned
    exc,              \* the exception that left the call
    calls,            \* calls finished
    upc,              \* /upload: where the request is
    req,              \* /upload: the request
    img_bytes,        \* /upload: what the bytes decode to
    uim,              \* /upload: the size and mode of im
    uexc,             \* /upload: the exception raised in the handler, and where
    status,           \* /upload: the HTTP status of the response
    open_calls,       \* /upload: calls of pil_open_image by the request
    rb_invoked        \* /upload: calls of remove_background by the request

coreVars == <<im, im_at_call, REMBG_AVAILABLE, pc, entry, do_rembg, threshold, smooth_radius,
              min_fg_fraction, bg_color, mask, fg_count, attempts, rembg_outcome,
              learned_calls, heuristic_calls, result, exc, calls>>
uploadVars == <<upc, req, img_bytes, uim, uexc, status, open_calls, rb_invoked>>
vars == <<coreVars, uploadVars>>

None == "none"

\* the thresholds, radii and fractions a direct caller of pillow_bg_remove passes
Thresholds == {0, 20, 25, 45, 60}
Radii == {0, 1, 3}
Fractions == {<<0, 1>>, DEFAULT_MIN_FG_FRACTION, <<1, 2>>, <<2, 1>>}
\* <<threshold, smooth_radius, min_fg_fraction>>: every positive threshold with
\* every fraction, and every radius
DirectArgs ==
    {<<thr, DEFAULT_SMOOTH_RADIUS, f>> : thr \in Thresholds \ {0}, f \in Fractions}
        \cup {<<DEFAULT_THRESHOLD, r, DEFAULT_MIN_FG_FRACTION>> : r \in Radii}
\* the arguments tried on the rasters larger than MaxDim
ScenarioArgs ==
    {<<thr, DEFAULT_SMOOTH_RADIUS, DEFAULT_MIN_FG_FRACTION>> :
        thr \in {DEFAULT_THRESHOLD, THRESHOLD_FLOOR}}
\* the number of filter calls that complete before one raises
FilterPasses(r) == {0, r, 2 * r}

\* what the learned segmenter can do with the PNG bytes
RembgOutcomes == {"success", "exception", "malformed"}
\* the alpha the learned segmenter gives every pixel when it succeeds
LearnedAlphas == {0, 255}

\* the raster decoded from the learned segmenter's bytes
LearnedResult(image, a) ==
    [mode |-> "RGBA", w |-> image.w, h |-> image.h,
     px |-> [p \in Pixels(image.w, image.h) |-> SubSeq(image.px[p], 1, 3) \o <<a>>]]

\* the learned segmenter tried when either holds
TryLearnedEither(available, flag) == available \/ flag

\* the condition of line 132
TryLearned(available, flag) == available /\ flag

\* an except clause that takes the decoding error only
RembgCaughtDecodeErrorOnly(o) == o = "malformed"

\* the except clause of line 140: `except Exception` takes every failure of
\* the segmenter and of the decoding of its bytes
RembgCaught(o) == o \in {"exception", "malformed"}

\* putalpha applied to the caller's raster itself
InputAliased(image, m) == PutAlpha(ConvertRGBA(image), m)

\* the caller's raster after rgba = im.convert("RGBA"); rgba.putalpha(mask):
\* convert returns a new raster, so im keeps its pixels
InputAfterComposite(image, m) == image

\* the raster returned by lines 126-128
Composite(image, m) == PutAlpha(ConvertRGBA(image), m)

ResetFrame ==
    /\ bg_color' = None
    /\ mask' = None
    /\ fg_count' = 0
    /\ attempts' = <<>>
    /\ rembg_outcome' = None
    /\ learned_calls' = 0
    /\ heuristic_calls' = 0
    /\ result' = None
    /\ exc' = None

CoreInit ==
    /\ im \in Images
    /\ im_at_call = im
    /\ REMBG_AVAILABLE \in BOOLEAN
    /\ pc = "idle"
    /\ entry = None
    /\ do_rembg = FALSE
    /\ threshold = DEFAULT_THRESHOLD
    /\ smooth_radius = DEFAULT_SMOOTH_RADIUS
    /\ min_fg_fraction = DEFAULT_MIN_FG_FRACTION
    /\ bg_color = None
    /\ mask = None
    /\ fg_count = 0
    /\ attempts = <<>>
    /\ rembg_outcome = None
    /\ learned_calls = 0
    /\ heuristic_calls = 0
    /\ result = None
    /\ exc = None
    /\ calls = 0

UploadIdle ==
    /\ upc = "off"
    /\ req = None
    /\ img_bytes = None
    /\ uim = None
    /\ uexc = [where |-> "none", exception |-> "none"]
    /\ status = 0
    /\ open_calls = 0
    /\ rb_invoked = 0

Init == CoreInit /\ UploadIdle

\* the caller calls remove_background(im, do_rembg)
CallRemoveBackground ==
    /\ pc = "idle"
    /\ calls < MaxCalls
    /\ \E flag \in BOOLEAN : do_rembg' = flag
    /\ entry' = "remove_background"
    /\ pc' = "remove_background"
    /\ im_at_call' = im
    /\ threshold' = DEFAULT_THRESHOLD
    /\ smooth_radius' = DEFAULT_SMOOTH_RADIUS
    /\ min_fg_fraction' = DEFAULT_MIN_FG_FRACTION
    /\ ResetFrame
    /\ UNCHANGED <<im, REMBG_AVAILABLE, calls, uploadVars>>

\* the caller calls pillow_bg_remove(im, threshold, smooth_radius, min_fg_fraction)
CallPillowBgRemove ==
    /\ pc = "idle"
    /\ calls < MaxCalls
    /\ \E args \in (IF IsSmall(im) THEN DirectArgs ELSE ScenarioArgs) :
          /\ threshold' = args[1]
          /\ smooth_radius' = args[2]
          /\ min_fg_fraction' = args[3]
    /\ entry' = "pillow_bg_remove"
    /\ pc' = "pillow_bg_remove"
    /\ im_at_call' = im
    /\ do_rembg' = FALSE
    /\ ResetFrame
    /\ UNCHANGED <<im, REMBG_AVAILABLE, calls, uploadVars>>

\* remove_background, lines 132-141: the learned segmenter is tried.  The PNG
\* encoding of a raster of at least one pixel succeeds, so rembg_remove is
\* called; its failure, or that of the decoding of its bytes, is the outcome.
RemoveBackgroundLearned ==
    /\ pc = "remove_background"
    /\ TryLearned(REMBG_AVAILABLE, do_rembg)
    /\ learned_calls' = learned_calls + 1
    /\ \E o \in RembgOutcomes :
          /\ rembg_outcome' = o
          /\ IF o = "success"
             THEN /\ \E a \in LearnedAlphas : result' = LearnedResult(im, a)
                  /\ pc' = "done"
                  /\ UNCHANGED <<heuristic_calls, exc>>
             ELSE IF RembgCaught(o)
             THEN /\ pc' = "pillow_bg_remove"
                  /\ heuristic_calls' = heuristic_calls + 1
                  /\ UNCHANGED <<result, exc>>
             ELSE /\ pc' = "raised"
                  /\ exc' = o
                  /\ UNCHANGED <<result, heuristic_calls>>
    /\ UNCHANGED <<im, im_at_call, REMBG_AVAILABLE, entry, do_rembg, threshold, smooth_radius,
                   min_fg_fraction, bg_color, mask, fg_count, attempts, calls, uploadVars>>

\* remove_background, lines 132 and 142: straight to the heuristic
RemoveBackgroundHeuristic ==
    /\ pc = "remove_background"
    /\ ~TryLearned(REMBG_AVAILABLE, do_rembg)
    /\ heuristic_calls' = heuristic_calls + 1
    /\ pc' = "pillow_bg_remove"
    /\ UNCHANGED <<im, im_at_call, REMBG_AVAILABLE, entry, do_rembg, threshold, smooth_radius,
                   min_fg_fraction, bg_color, mask, fg_count, attempts, rembg_outcome,
                   learned_calls, result, exc, calls, uploadVars>>

\* one frame of pillow_bg_remove, lines 99-117: the mask is built and either
\* the function calls itself with the lowered threshold or goes on to refine
PillowAttempt ==
    /\ pc = "pillow_bg_remove"
    /\ LET rgb == ConvertRGB(im)
           bg == estimate_background_color(rgb, SAMPLE_SIZE)
           m == BuildMask(rgb, bg, threshold)
           fg == FgCount(m)
           frame == [threshold |-> threshold, smooth_radius |-> smooth_radius,
                     min_fg_fraction |-> min_fg_fraction, bg_color |-> bg, fg_count |-> fg]
       IN  IF im.w * im.h = 0
           THEN /\ exc' = "ZeroDivisionError"
                /\ pc' = "raised"
                /\ UNCHANGED <<threshold, bg_color, mask, fg_count, attempts>>
           ELSE /\ attempts' = Append(attempts, frame)
                /\ exc' = exc
                /\ IF NeedsRetry(fg, im.w, im.h, min_fg_fraction, threshold)
                   THEN /\ threshold' = LoweredThreshold(threshold)
                        /\ pc' = "pillow_bg_remove"
                        /\ UNCHANGED <<bg_color, mask, fg_count>>
                   ELSE /\ bg_color' = bg
                        /\ mask' = m
                        /\ fg_count' = fg
                        /\ pc' = "refine"
                        /\ threshold' = threshold
    /\ UNCHANGED <<im, im_at_call, REMBG_AVAILABLE, entry, do_rembg, smooth_radius,
                   min_fg_fraction, rembg_outcome, learned_calls, heuristic_calls, result,
                   calls, uploadVars>>

\* pillow_bg_remove, lines 118-128: the mask is refined and put on the raster
PillowRefine ==
    /\ pc = "refine"
    /\ \E passes \in FilterPasses(smooth_radius) :
          LET refined == RefineMask(mask, im.w, im.h, smooth_radius, passes)
          IN  /\ mask' = refined
              /\ result' = Composite(im, refined)
              /\ im' = InputAfterComposite(im, refined)
    /\ pc' = "done"
    /\ UNCHANGED <<im_at_call, REMBG_AVAILABLE, entry, do_rembg, threshold, smooth_radius,
                   min_fg_fraction, bg_color, fg_count, attempts, rembg_outcome, learned_calls,
                   heuristic_calls, exc, calls, uploadVars>>

\* the call is over: its result or its exception is the caller's, and nothing
\* of the call is kept
Return ==
    /\ pc \in {"done", "raised"}
    /\ pc' = "idle"
    /\ calls' = calls + 1
    /\ entry' = None
    /\ do_rembg' = FALSE
    /\ threshold' = DEFAULT_THRESHOLD
    /\ smooth_radius' = DEFAULT_SMOOTH_RADIUS
    /\ min_fg_fraction' = DEFAULT_MIN_FG_FRACTION
    /\ ResetFrame
    /\ UNCHANGED <<im, im_at_call, REMBG_AVAILABLE, uploadVars>>

Next ==
    \/ CallRemoveBackground
    \/ CallPillowBgRemove
    \/ RemoveBackgroundLearned
    \/ RemoveBackgroundHeuristic
    \/ PillowAttempt
    \/ PillowRefine
    \/ Return

Spec == Init /\ [][Next]_vars

(***************************************************************************)
(* The /upload handler.  A request is one of the three ways of giving the  *)
(* image, or none; the raster is kept as its mode and size, the pixels     *)
(* after a LANCZOS resize not being modelled.                              *)
(***************************************************************************)
SmallLen == 1000

Requests ==
    { [source |-> "file", len |-> n, do_remove_bg |-> f] :
        n \in {0, SmallLen, MAX_UPLOAD_BYTES, MAX_UPLOAD_BYTES + 1}, f \in BOOLEAN }
    \cup { [source |-> "url", scheme |-> sc, fetch_ok |-> ok, len |-> n, do_remove_bg |-> f] :
             sc \in {"https", "ftp"}, ok \in BOOLEAN,
             n \in {SmallLen, MAX_UPLOAD_BYTES + 1}, f \in BOOLEAN }
    \cup { [source |-> "base64", data_url |-> d, comma |-> c, valid |-> v, do_remove_bg |-> f] :
             d \in BOOLEAN, c \in BOOLEAN, v \in BOOLEAN, f \in BOOLEAN }
    \cup { [source |-> "none", do_remove_bg |-> f] : f \in BOOLEAN }

\* the sizes Image.open can give: both dimensions at least 1
DecodedSizes ==
    { <<1, 1>>, <<640, 480>>, <<2048, 2048>>, <<2049, 1>>, <<2049, 2049>>, <<3000, 2>>,
      <<4096, 2>>, <<4097, 1>>, <<1, 5000>>, <<5000, 3>>, <<4000, 3000>> }

\* what Image.open(io.BytesIO(img_bytes)).convert("RGBA") does with the bytes:
\* a raster, UnidentifiedImageError (no decoder knows the bytes), OSError (a
\* known format whose data is truncated or broken) or DecompressionBombError
\* (a header that announces too many pixels)
Decodings ==
    { [kind |-> "image", w |-> sz[1], h |-> sz[2]] : sz \in DecodedSizes }
    \cup { [kind |-> "error", exception |-> e] :
             e \in {"UnidentifiedImageError", "OSError", "DecompressionBombError"} }

\* the except clause of pil_open_image: the exceptions it turns into HTTP 400
OpenCatches(e) == e = "UnidentifiedImageError"

\* int(d * scale) with scale = max_dim / max(w, h), as the integer part of the
\* exact quotient (the floating-point rounding of scale is left out)
Scaled(d, max_dim, w, h) == (d * max_dim) \div Max(w, h)

\* downscale_if_needed: the size of the raster returned, or the ValueError
\* ("height and width must be > 0") of Image.resize for a size below 1
downscale_if_needed(w, h, max_dim) ==
    IF Max(w, h) <= max_dim THEN [kind |-> "image", w |-> w, h |-> h]
    ELSE LET new_w == Scaled(w, max_dim, w, h)
             new_h == Scaled(h, max_dim, w, h)
         IN  IF new_w < 1 \/ new_h < 1
             THEN [kind |-> "error", exception |-> "ValueError", w |-> new_w, h |-> new_h]
             ELSE [kind |-> "image", w |-> new_w, h |-> new_h]

NoException == [where |-> None, exception |-> None]

\* the handlers of lines 219-223: an HTTPException keeps its status, any other
\* exception becomes the JSON response with status 500
UploadFails(where, e, code) ==
    /\ upc' = "responded"
    /\ uexc' = [where |-> where, exception |-> e]
    /\ status' = code

UploadInit ==
    /\ im = None
    /\ im_at_call = None
    /\ REMBG_AVAILABLE \in BOOLEAN
    /\ pc = "off"
    /\ entry = None
    /\ do_rembg = FALSE
    /\ threshold = DEFAULT_THRESHOLD
    /\ smooth_radius = DEFAULT_SMOOTH_RADIUS
    /\ min_fg_fraction = DEFAULT_MIN_FG_FRACTION
    /\ bg_color = None
    /\ mask = None
    /\ fg_count = 0
    /\ attempts = <<>>
    /\ rembg_outcome = None
    /\ learned_calls = 0
    /\ heuristic_calls = 0
    /\ result = None
    /\ exc = None
    /\ calls = 0
    /\ upc = "received"
    /\ req \in Requests
    /\ img_bytes = None
    /\ uim = None
    /\ uexc = [where |-> "none", exception |-> "none"]
    /\ status = 0
    /\ open_calls = 0
    /\ rb_invoked = 0

\* upload_garment, lines 166-195: the bytes of the image are obtained
UploadReadInput ==
    /\ upc = "received"
    /\ IF req.source = "file"
       THEN IF req.len = 0 THEN UploadFails("input", "HTTPException", 400)
            ELSE IF req.len > MAX_UPLOAD_BYTES THEN UploadFails("input", "HTTPException", 413)
            ELSE upc' = "open" /\ UNCHANGED <<uexc, status>>
       ELSE IF req.source = "url"
       THEN IF req.scheme \notin {"http", "https"} THEN UploadFails("input", "HTTPException", 400)
            ELSE IF ~req.fetch_ok THEN UploadFails("input", "HTTPException", 400)
            ELSE IF req.len > MAX_UPLOAD_BYTES THEN UploadFails("input", "HTTPException", 413)
            ELSE upc' = "open" /\ UNCHANGED <<uexc, status>>
       ELSE IF req.source = "base64"
       THEN IF req.data_url /\ ~req.comma THEN UploadFails("input", "HTTPException", 400)
            ELSE IF req.data_url /\ ~req.valid THEN UploadFails("input", "binascii.Error", 500)
            ELSE IF ~req.valid THEN UploadFails("input", "HTTPException", 400)
            ELSE upc' = "open" /\ UNCHANGED <<uexc, status>>
       ELSE UploadFails("input", "HTTPException", 400)
    /\ UNCHANGED <<coreVars, req, img_bytes, uim, open_calls, rb_invoked>>

\* line 197 and pil_open_image, lines 50-56
UploadOpenImage ==
    /\ upc = "open"
    /\ open_calls' = open_calls + 1
    /\ \E d \in Decodings :
          /\ img_bytes' = d
          /\ IF d.kind = "image"
             THEN /\ uim' = [mode |-> "RGBA", w |-> d.w, h |-> d.h]
                  /\ upc' = "downscale"
                  /\ UNCHANGED <<uexc, status>>
             ELSE /\ uim' = uim
                  /\ IF OpenCatches(d.exception)
                     THEN UploadFails("pil_open_image", "HTTPException", 400)
                     ELSE UploadFails("pil_open_image", d.exception, 500)
    /\ UNCHANGED <<coreVars, req, rb_invoked>>

\* line 198 and downscale_if_needed, lines 59-66
UploadDownscale ==
    /\ upc = "downscale"
    /\ LET r == downscale_if_needed(uim.w, uim.h, MAX_DIMENSION)
       IN  IF r.kind = "image"
           THEN /\ uim' = [uim EXCEPT !.w = r.w, !.h = r.h]
                /\ upc' = "remove_bg"
                /\ UNCHANGED <<uexc, status>>
           ELSE /\ uim' = uim
                /\ UploadFails("downscale_if_needed", r.exception, 500)
    /\ UNCHANGED <<coreVars, req, img_bytes, open_calls, rb_invoked>>

\* lines 201-205: remove_background(im, do_rembg=True), which for a raster of
\* at least one pixel returns an RGBA raster (of the same size on the heuristic
\* path) and for an empty one leaves by the division of line 115
UploadRemoveBackground ==
    /\ upc = "remove_bg"
    /\ IF req.do_remove_bg
       THEN /\ rb_invoked' = rb_invoked + 1
            /\ \E o \in RembgOutcomes :
                  IF TryLearned(REMBG_AVAILABLE, TRUE) /\ o = "success"
                  THEN upc' = "encode" /\ UNCHANGED <<uexc, status>>
                  ELSE IF uim.w * uim.h = 0
                       THEN UploadFails("pillow_bg_remove", "ZeroDivisionError", 500)
                       ELSE upc' = "encode" /\ UNCHANGED <<uexc, status>>
       ELSE /\ rb_invoked' = rb_invoked
            /\ upc' = "encode"
            /\ UNCHANGED <<uexc, status>>
    /\ UNCHANGED <<coreVars, req, img_bytes, uim, open_calls>>

\* lines 207-218: the PNG is encoded and the response sent
UploadRespond ==
    /\ upc = "encode"
    /\ upc' = "responded"
    /\ status' = 200
    /\ UNCHANGED <<coreVars, req, img_bytes, uim, uexc, open_calls, rb_invoked>>

UploadNext ==
    \/ UploadReadInput
    \/ UploadOpenImage
    \/ UploadDownscale
    \/ UploadRemoveBackground
    \/ UploadRespond

SpecUpload == UploadInit /\ [][UploadNext]_vars

(***************************************************************************)
(* The properties.                                                         *)
(***************************************************************************)
InCall == pc \in {"remove_background", "pillow_bg_remove", "refine", "done", "raised"}
Running == pc \in {"remove_background", "pillow_bg_remove", "refine"}
NonEmptyInput == im_at_call.w >= 1 /\ im_at_call.h >= 1

\* a raster of four channels, every value in 0..255
IsRGBARaster(r) ==
    /\ r.mode = "RGBA"
    /\ DOMAIN r.px = Pixels(r.w, r.h)
    /\ \A p \in DOMAIN r.px :
          Len(r.px[p]) = 4 /\ \A k \in 1 .. 4 : r.px[p][k] \in 0 .. 255

\* the thresholds of the frames of the call, in order
Tried == [i \in 1 .. Len(attempts) |-> attempts[i].threshold]

\* fg_fraction < min_fg_fraction in frame i, written out
FrameBelowMin(i) ==
    attempts[i].fg_count * attempts[i].min_fg_fraction[2]
        < attempts[i].min_fg_fraction[1] * (im_at_call.w * im_at_call.h)

\* the heuristic has built its final mask
MaskBuilt == pc \in {"refine", "done"} /\ Len(attempts) > 0

\* every pixel of the raster has the colour c
UniformRGB(image, c) == \A p \in DOMAIN image.px : SubSeq(image.px[p], 1, 3) = c

\* C1: remove_background on a raster of at least one pixel never leaves by an
\* exception, whatever do_rembg, REMBG_AVAILABLE and the learned segmenter do:
\* one of its two branches can always be taken, it builds at most three masks
\* (a frame of pillow_bg_remove and the refinement have no condition to wait
\* for), and what it returns is a four-channel raster.
C1_NeverRaisesReturnsRGBA ==
    (InCall /\ entry = "remove_background" /\ NonEmptyInput) =>
        /\ pc # "raised"
        /\ exc = None
        /\ Len(attempts) <= 3
        /\ (pc = "remove_background" =>
              ENABLED (RemoveBackgroundLearned \/ RemoveBackgroundHeuristic))
        /\ (pc = "done" => IsRGBARaster(result))

\* C1 witness: the learned segmenter returned malformed bytes and the call
\* returned the heuristic's raster.
C1_Witness ==
    /\ pc = "done"
    /\ entry = "remove_background"
    /\ NonEmptyInput
    /\ rembg_outcome = "malformed"
    /\ Len(attempts) > 0

\* C2: a call that starts at threshold 45 builds at most three masks, at the
\* thresholds 45, 30, 20 in that order, and after the third it does not call
\* itself again.
C2_RetryTermination ==
    (InCall /\ Len(attempts) > 0 /\ attempts[1].threshold = 45) =>
        /\ Len(attempts) <= 3
        /\ \A i \in 1 .. Len(attempts) : Tried[i] = <<45, 30, 20>>[i]
        /\ (Len(attempts) = 3 => pc \in {"refine", "done"})

\* C2 witness: a call with a fraction no mask reaches, over after two retries.
C2_Witness ==
    /\ pc = "done"
    /\ Tried = <<45, 30, 20>>
    /\ min_fg_fraction = <<2, 1>>

IsRedSquare20(image) == image.w = 20 /\ image.h = 20 /\ image = RedSquare20

\* C3 as stated: on the 20x20 white raster with the red square the first mask,
\* at threshold 45, has exactly the 64 red pixels as foreground, and every
\* border pixel of the result has alpha below 20.
C3_AsStated ==
    (MaskBuilt /\ IsRedSquare20(im_at_call) /\ attempts[1].threshold = 45
       /\ min_fg_fraction = DEFAULT_MIN_FG_FRACTION /\ smooth_radius = DEFAULT_SMOOTH_RADIUS) =>
        /\ Len(attempts) = 1
        /\ fg_count = 64
        /\ (pc = "refine" =>
              \A p \in DOMAIN mask : (mask[p] = 255) <=> (SubSeq(im_at_call.px[p], 1, 3) = Red))
        /\ (pc = "done" =>
              \A p \in DOMAIN result.px :
                 (p[1] \in {0, 19} \/ p[2] \in {0, 19}) => result.px[p][4] < 20)

\* C3 amended: on that raster every 10x10 corner sample holds 16 red pixels, the
\* estimated background is (255, 214, 214), the first mask, at threshold 45,
\* has all 400 pixels as foreground (no retry), and every border pixel of the
\* result has alpha 255.
C3_AllForeground ==
    (MaskBuilt /\ IsRedSquare20(im_at_call) /\ attempts[1].threshold = 45
       /\ min_fg_fraction = DEFAULT_MIN_FG_FRACTION /\ smooth_radius = DEFAULT_SMOOTH_RADIUS) =>
        /\ Len(attempts) = 1
        /\ attempts[1].bg_color = <<255, 214, 214>>
        /\ fg_count = 400
        /\ (pc = "refine" => \A p \in DOMAIN mask : mask[p] = 255)
        /\ (pc = "done" =>
              \A p \in DOMAIN result.px :
                 (p[1] \in {0, 19} \/ p[2] \in {0, 19}) => result.px[p][4] = 255)

\* C3 witness: remove_background has returned the heuristic's raster for it.
C3_Witness ==
    /\ pc = "done"
    /\ IsRedSquare20(im_at_call)
    /\ entry = "remove_background"
    /\ Len(attempts) = 1
    /\ fg_count = 400

\* the pixels of the raster farther from bg than the threshold t
ForegroundAt(image, bg, t) ==
    LET m == BuildMask(ConvertRGB(image), bg, t) IN {p \in DOMAIN m : m[p] = 255}

C7_UniformImage ==
    \A c \in Palette \cup {Gray} :
       (InCall /\ NonEmptyInput /\ UniformRGB(im_at_call, c)) =>
          /\ \A i \in 1 .. Len(attempts) : attempts[i].bg_color = c
          /\ (MaskBuilt /\ attempts[1].threshold = 45 /\ min_fg_fraction[1] > 0) =>
                /\ Tried = <<45, 30, 20>>
                /\ fg_count = 0
                /\ \A p \in DOMAIN mask : mask[p] = 0
                /\ (pc = "done" => \A p \in DOMAIN result.px : result.px[p][4] = 0)

\* C7 witness: the call on the 5x5 gray raster is over.
C7_Witness ==
    /\ pc = "done"
    /\ im_at_call.w = 5
    /\ im_at_call = Gray5
    /\ Len(attempts) = 3
    /\ bg_color = Gray

\* C8: in a call of remove_background the learned segmenter is called once if
\* REMBG_AVAILABLE and do_rembg are both true and not at all otherwise; the
\* heuristic is called once if the segmenter was not called or failed, and not
\* at all if it succeeded, whose raster is then returned; this holds for the
\* first call and for every later one.
C8_PathSelection ==
    (InCall /\ entry = "remove_background" /\ NonEmptyInput) =>
        /\ learned_calls <= 1
        /\ heuristic_calls <= 1
        /\ (pc # "remove_background" =>
              /\ (learned_calls = 1) <=> (REMBG_AVAILABLE /\ do_rembg)
              /\ (heuristic_calls = 1) <=> (learned_calls = 0 \/ rembg_outcome # "success")
              /\ (learned_calls = 0) => rembg_outcome = None)
        /\ (pc = "done" /\ rembg_outcome = "success") =>
              /\ Len(attempts) = 0
              /\ \E a \in LearnedAlphas : result = LearnedResult(im_at_call, a)
        /\ (pc = "done" /\ rembg_outcome # "success") => Len(attempts) > 0

\* C8 witness: a second call, in which the segmenter was tried and failed.
C8_Witness ==
    /\ calls = 1
    /\ NonEmptyInput
    /\ pc = "done"
    /\ entry = "remove_background"
    /\ learned_calls = 1
    /\ rembg_outcome = "exception"
    /\ heuristic_calls = 1

\* C9: whatever the starting threshold, a frame is followed by another exactly
\* when its foreground fraction is below the minimum and its threshold is
\* above 20; the next threshold is lower, is at least 20, and is lower by 15
\* or more unless it is the floor 20; a frame at 20 or below is the last; the
\* background colour, the radius and the minimum fraction are those of the
\* first frame in every frame.
C9_RetryRule ==
    (InCall /\ NonEmptyInput) =>
        /\ \A i \in 1 .. Len(attempts) :
              LET retried == i < Len(attempts) \/ pc = "pillow_bg_remove"
              IN  /\ retried <=> (FrameBelowMin(i) /\ attempts[i].threshold > 20)
                  /\ attempts[i].threshold <= 20 => ~retried
                  /\ attempts[i].bg_color = attempts[1].bg_color
                  /\ attempts[i].smooth_radius = attempts[1].smooth_radius
                  /\ attempts[i].min_fg_fraction = attempts[1].min_fg_fraction
        /\ \A i \in 1 .. (Len(attempts) - 1) :
              /\ attempts[i + 1].threshold < attempts[i].threshold
              /\ attempts[i + 1].threshold >= 20
              /\ attempts[i + 1].threshold <= attempts[i].threshold - 15
                    \/ attempts[i + 1].threshold = 20
        /\ (pc = "pillow_bg_remove" /\ Len(attempts) > 0) =>
              /\ threshold < attempts[Len(attempts)].threshold
              /\ threshold >= 20
              /\ threshold <= attempts[Len(attempts)].threshold - 15 \/ threshold = 20

\* C9 witness: a call that started at 25 and retried once, at the floor.
C9_Witness ==
    /\ pc = "done"
    /\ Tried = <<25, 20>>

\* C10: pillow_bg_remove returns a raster of the size of its input whose red,
\* green and blue are the input's at every pixel and whose alpha is the refined
\* mask, a value in 0..255; the caller's raster is the same after the call,
\* and during it, as before.
C10_Frame ==
    (InCall /\ NonEmptyInput) =>
        /\ im = im_at_call
        /\ (pc = "done" /\ Len(attempts) > 0) =>
              /\ result.w = im_at_call.w
              /\ result.h = im_at_call.h
              /\ DOMAIN result.px = DOMAIN im_at_call.px
              /\ \A p \in DOMAIN result.px :
                    /\ SubSeq(result.px[p], 1, 3) = SubSeq(im_at_call.px[p], 1, 3)
                    /\ result.px[p][4] = mask[p]
                    /\ result.px[p][4] \in 0 .. 255

\* C10 witness: a call on an RGBA raster, with a retry, whose result has an
\* alpha other than the input's.
C10_Witness ==
    /\ pc = "done"
    /\ entry = "pillow_bg_remove"
    /\ Len(attempts) = 2
    /\ im_at_call.mode = "RGBA"
    /\ \E p \in DOMAIN result.px : result.px[p][4] # im_at_call.px[p][4]

\* C4: in a request the raster given to remove_background has at least one
\* pixel in each dimension, and for a decoded raster of at least 1x1 whose
\* larger dimension exceeds MAX_DIMENSION downscale_if_needed returns a raster
\* with both dimensions at least 1.
C4_DownscaleKeepsArea ==
    /\ (upc = "remove_bg" => uim.w >= 1 /\ uim.h >= 1)
    /\ (open_calls >= 1 /\ upc \in {"remove_bg", "encode", "responded"}
          /\ img_bytes.kind = "image"
          /\ Max(img_bytes.w, img_bytes.h) > MAX_DIMENSION) =>
             /\ uexc = NoException
             /\ uim.w >= 1
             /\ uim.h >= 1

\* C6: a request whose bytes the decoder cannot turn into a raster, whatever
\* the decoder's exception, ends with status 400, after one call of
\* pil_open_image and no call of remove_background.
C6_DecodeErrorIs400 ==
    (upc = "responded" /\ open_calls >= 1 /\ img_bytes.kind = "error") =>
        /\ status = 400
        /\ open_calls = 1
        /\ rb_invoked = 0

====
